---- MODULE Spec2Model ----
(***************************************************************************)
(* A model of coroutine.h (ucontext backend, lines 185-312) and of the     *)
(* Channel built on it (lines 316-380); the fiber backend (lines 59-181)   *)
(* is modelled beside it, in the variable `fiber`.                         *)
(*                                                                         *)
(* The thread-local Ordinator is the record `ordinator`; every Routine     *)
(* ever allocated by create() is an element of the sequence `objs`, and a  *)
(* shared_ptr<Routine> is an index into it (Null for nullptr).  `running`  *)
(* is the execution context the processor is in: Host, or the Routine      *)
(* whose stack is in use.  The functions of the header are operators from  *)
(* a program state to the set of program states the call can lead to; the  *)
(* set has more than one element only where the behaviour is undefined.    *)
(* An assert() aborts the program unless the header is compiled with       *)
(* NDEBUG, which turns it into nothing; both builds are modelled.          *)
(***************************************************************************)
EXTENDS Integers, Sequences, FiniteSets, TLC

\* ---------------------------------------------------------------- bounds
MaxObj == 2       \* create() calls in one run
MaxYield == 2     \* yields in the body of a routine
MaxPush == 3      \* push() calls made by the host in one run
MaxFree == 3      \* length of the free-list at which destroy() is no longer called

\* ------------------------------------------------------- program constants
Null == 0         \* an empty shared_ptr<Routine>
Host == 0         \* the value of ordinator.current in the host context
NoCtx == -1       \* a ucontext_t that holds no context that can be entered
NotFound == -1    \* resume: the slot is empty
Finished == -2    \* resume: the routine has finished
Switched == 0     \* resume: the routine ran and gave control back
Pending == 1      \* ghost: the call has not returned (resume never returns 1)

VARIABLES
    NDEBUG,       \* the build: TRUE when assert() is compiled out
    ordinator,    \* [routines, indexes, current, ctx]
    objs,         \* the Routine objects allocated so far
    running,      \* the context that executes: Host or an index of objs
    status,       \* "ok", or how the program ended: "abort", "crash", "hang"
    call,         \* the last call of create/destroy/resume and what it returned
    chan,         \* one Channel<int>: [list_, taker_]
    fiber,        \* the same program built with the fiber backend (lines 59-181)
    hist          \* history variables the properties are stated with

vars == <<NDEBUG, ordinator, objs, running, status, call, chan, fiber, hist>>

\* ---------------------------------------------------------- routine bodies
\* A body is a sequence of the library calls it makes; it returns after the
\* last one.
Instr(op, v) == [op |-> op, v |-> v]

YieldBody(k) == [i \in 1..k |-> Instr("yield", 0)]

YieldBodies == {YieldBody(k) : k \in 0..MaxYield}

Producer == <<Instr("push", 1), Instr("push", 2), Instr("push", 3)>>

Consumer == <<Instr("pop", 0), Instr("pop", 0), Instr("pop", 0)>>

Awaiter == <<Instr("await", 0)>>

Toucher == <<Instr("touch", 0)>>

Popper == <<Instr("pop", 0)>>

\* A routine that calls destroy and then yields: destroy(current()) for
\* k = 0, destroy(k) otherwise.
Destroyer(k) == <<Instr("destroy", k), Instr("yield", 0)>>

\* A routine that is the consumer of what it pushes.
SelfTaker ==
    <<Instr("push", 5), Instr("pop", 0), Instr("push", 5), Instr("touch", 0)>>

\* ------------------------------------------------------------------ state
\* struct Routine: func, stack, finished, ctx.  ctx is the Routine whose
\* suspended context the ucontext_t holds, Null when it holds none that may
\* be entered.  The other fields are what lives on the routine's stack: the
\* local id of entry(), the position in the body (pc), whether it is inside
\* the loop of Channel::pop, the future of await and the body's own locals.
Routine(f) ==
    [func |-> f, stack |-> FALSE, finished |-> FALSE, ctx |-> Null,
     id |-> 0, pc |-> 1, inpop |-> FALSE,
     fut |-> "none", fval |-> 0, got |-> 0, acc |-> 0]

Ordinator == [routines |-> <<>>, indexes |-> <<>>, current |-> 0, ctx |-> NoCtx]

Channel == [list_ |-> <<>>, taker_ |-> 0]

\* Channel(routine_t id)
ChannelOf(id) == [list_ |-> <<>>, taker_ |-> id]

Cur == [NDEBUG |-> NDEBUG, ordinator |-> ordinator, objs |-> objs,
        running |-> running, status |-> status, call |-> call, chan |-> chan]

\* The program goes to state n, and the build with the fiber backend to
\* state m.
Step(n, m) ==
    /\ NDEBUG' = n.NDEBUG
    /\ ordinator' = n.ordinator
    /\ objs' = n.objs
    /\ running' = n.running
    /\ status' = n.status
    /\ call' = n.call
    /\ chan' = n.chan
    /\ fiber' = m

Set(n) == Step(n, fiber)

\* A failed assert() in a build with assertions.
abort(s) == [s EXCEPT !.status = "abort"]

\* Undefined behaviour (a read outside the vector, a null dereference, a
\* switch into a context that is not suspended): the program may crash or
\* never come back.
Undefined(s) == {[s EXCEPT !.status = x] : x \in {"crash", "hang"}}

Returned(s, op, arg, ret) == [s EXCEPT !.call = [op |-> op, arg |-> arg, ret |-> ret]]

current(s) == s.ordinator.current

\* ------------------------------------------------------------- scheduler
create(s, f) ==
    LET o == s.ordinator
        routine == Len(s.objs) + 1
        s1 == [s EXCEPT !.objs = Append(@, Routine(f))]
    IN  IF o.indexes = <<>>
        THEN {Returned([s1 EXCEPT !.ordinator.routines = Append(@, routine)],
                       "create", 0, Len(o.routines) + 1)}
        ELSE LET id == Head(o.indexes)
                 s2 == [s1 EXCEPT !.ordinator.indexes = Tail(@)]
             IN  IF o.routines[id] # Null /\ ~s.NDEBUG
                 THEN {abort(s2)}
                 ELSE {Returned([s2 EXCEPT !.ordinator.routines[id] = routine],
                                "create", 0, id)}

\* destroy() that returns the identifier to the free-list and forgets to
\* clear the slot.
destroyKeepsSlot(s, id) ==
    LET routine == s.ordinator.routines[id]
    IN  IF routine = Null /\ ~s.NDEBUG
        THEN {abort(s)}
        ELSE {Returned([s EXCEPT !.ordinator.indexes = Append(@, id)],
                       "destroy", id, Pending)}

\* destroy() that puts the identifier at the head of the free-list.
destroyPushFront(s, id) ==
    LET routine == s.ordinator.routines[id]
    IN  IF routine = Null /\ ~s.NDEBUG
        THEN {abort(s)}
        ELSE {Returned([s EXCEPT !.ordinator.routines[id] = Null,
                                 !.ordinator.indexes = <<id>> \o @],
                       "destroy", id, Pending)}

destroy(s, id) ==
    LET routine == s.ordinator.routines[id]
    IN  IF routine = Null /\ ~s.NDEBUG
        THEN {abort(s)}
        ELSE {Returned([s EXCEPT !.ordinator.routines[id] = Null,
                                 !.ordinator.indexes = Append(@, id)],
                       "destroy", id, Pending)}

\* Control enters ordinator.ctx: the second argument of swapcontext in yield,
\* and the uc_link of a routine whose entry() returns.  The context saved
\* there is inside resume(), which then returns 0.
SwitchBack(s) ==
    IF s.ordinator.ctx = NoCtx
    THEN Undefined(s)
    ELSE {[s EXCEPT !.running = s.ordinator.ctx,
                    !.ordinator.ctx = NoCtx,
                    !.call.ret = Switched]}

\* entry() that does not set routine->finished.
entryNotFinished(s) ==
    LET routine == s.running
        id == s.objs[routine].id
    IN  SwitchBack([s EXCEPT !.ordinator.current = 0,
                             !.ordinator.indexes = Append(@, id)])

\* entry(), from the return of routine->func() on.
entry(s) ==
    LET routine == s.running
        id == s.objs[routine].id
    IN  SwitchBack([s EXCEPT !.objs[routine].finished = TRUE,
                             !.ordinator.current = 0,
                             !.ordinator.indexes = Append(@, id)])

\* resume() without the test of routine->stack: every switch builds the
\* context anew, at the start of entry().
transferAlwaysFresh(s, id, routine) ==
    {[Returned([s EXCEPT !.ordinator.current = id,
                         !.ordinator.ctx = s.running],
               "resume", id, Pending)
        EXCEPT !.objs[routine].stack = TRUE,
               !.objs[routine].id = id,
               !.objs[routine].pc = 1,
               !.running = routine]}

\* resume(), from `if (routine->stack == nullptr)` on: the first switch
\* builds the context at the start of entry(), which reads the local id
\* from ordinator.current; a later one enters the context yield() saved.
transfer(s, id, routine) ==
    LET s1 == Returned([s EXCEPT !.ordinator.current = id,
                                 !.ordinator.ctx = s.running],
                       "resume", id, Pending)
    IN  IF ~s.objs[routine].stack
        THEN {[s1 EXCEPT !.objs[routine].stack = TRUE,
                         !.objs[routine].id = id,
                         !.objs[routine].pc = 1,
                         !.running = routine]}
        ELSE IF s.objs[routine].ctx = Null
        THEN Undefined(s)
        ELSE {[s1 EXCEPT !.objs[routine].ctx = Null,
                         !.running = s.objs[routine].ctx]}

\* resume() without the test of routine->finished.
resumeIgnoresFinished(s, id) ==
    LET o == s.ordinator
    IN  IF o.current # 0 /\ ~s.NDEBUG
        THEN {abort(s)}
        ELSE IF id \notin 1..Len(o.routines)
        THEN {Returned(s, "resume", id, NotFound),
              Returned(s, "resume", id, Finished)} \cup Undefined(s)
        ELSE LET routine == o.routines[id]
             IN  IF routine = Null
                 THEN {Returned(s, "resume", id, NotFound)}
                 ELSE transfer(s, id, routine)

resume(s, id) ==
    LET o == s.ordinator
    IN  IF o.current # 0 /\ ~s.NDEBUG
        THEN {abort(s)}
        ELSE IF id \notin 1..Len(o.routines)
        THEN {Returned(s, "resume", id, NotFound),
              Returned(s, "resume", id, Finished)} \cup Undefined(s)
        ELSE LET routine == o.routines[id]
             IN  IF routine = Null
                 THEN {Returned(s, "resume", id, NotFound)}
                 ELSE IF s.objs[routine].finished
                 THEN {Returned(s, "resume", id, Finished)}
                 ELSE transfer(s, id, routine)

\* yield().  The second assertion compares the top of routine->stack with
\* the address of a local of the caller: it holds when routine is the
\* routine that runs (bodies stay within STACK_LIMIT) and fails when it is
\* another one, whose stack is elsewhere or not allocated.
yield(s) ==
    LET o == s.ordinator
        id == o.current
    IN  IF id \notin 1..Len(o.routines)
        THEN Undefined(s)
        ELSE LET routine == o.routines[id]
             IN  IF routine = Null
                 THEN IF s.NDEBUG THEN Undefined(s) ELSE {abort(s)}
                 ELSE IF routine # s.running /\ ~s.NDEBUG
                 THEN {abort(s)}
                 ELSE SwitchBack([s EXCEPT !.objs[routine].ctx = s.running,
                                           !.ordinator.current = 0])

\* --------------------------------------------------------- fiber backend
\* The build with _MSC_VER (lines 59-181).  Its state is a record of the
\* same shape: the field stack of a Routine stands for `fiber != nullptr`,
\* a fiber keeps the context of its own routine whenever that routine is
\* switched away from, and ordinator.fiber is always the fiber of the host,
\* so the fields ctx are not used.  create and destroy are, statement for
\* statement, those of the other backend.
fiber_create(s, f) == create(s, f)

fiber_destroy(s, id) == destroy(s, id)

\* SwitchToFiber(ordinator.fiber): the host goes on inside the resume() it
\* is suspended in, which returns 0.  Switching to the fiber that is
\* running is undefined.
SwitchToFiber(s) ==
    IF s.running = Host
    THEN Undefined(s)
    ELSE {[s EXCEPT !.running = Host, !.call.ret = Switched]}

\* entry() of the fiber backend, from the return of routine->func() on.
fiber_entry(s) ==
    LET routine == s.running
    IN  SwitchToFiber([s EXCEPT !.objs[routine].finished = TRUE,
                                !.ordinator.current = 0])

\* resume() of the fiber backend, from `if (routine->fiber == nullptr)` on.
\* A new fiber starts in entry(), which reads id from ordinator.current and
\* finds the slot non-empty, as resume() just did.
fiber_transfer(s, id, routine) ==
    LET s1 == Returned([s EXCEPT !.ordinator.current = id], "resume", id, Pending)
    IN  IF ~s.objs[routine].stack
        THEN {[s1 EXCEPT !.objs[routine].stack = TRUE,
                         !.objs[routine].id = id,
                         !.objs[routine].pc = 1,
                         !.running = routine]}
        ELSE IF routine = s.running
        THEN Undefined(s)
        ELSE {[s1 EXCEPT !.running = routine]}

fiber_resume(s, id) ==
    LET o == s.ordinator
    IN  IF o.current # 0 /\ ~s.NDEBUG
        THEN {abort(s)}
        ELSE IF id \notin 1..Len(o.routines)
        THEN {Returned(s, "resume", id, NotFound),
              Returned(s, "resume", id, Finished)} \cup Undefined(s)
        ELSE LET routine == o.routines[id]
             IN  IF routine = Null
                 THEN {Returned(s, "resume", id, NotFound)}
                 ELSE IF s.objs[routine].finished
                 THEN {Returned(s, "resume", id, Finished)}
                 ELSE fiber_transfer(s, id, routine)

\* yield() of the fiber backend: routine is only read by the assertion, so
\* without assertions the read outside the vector may also go unnoticed.
fiber_yield(s) ==
    LET o == s.ordinator
        id == o.current
        switch == SwitchToFiber([s EXCEPT !.ordinator.current = 0])
    IN  IF id \notin 1..Len(o.routines)
        THEN Undefined(s) \cup (IF s.NDEBUG THEN switch ELSE {})
        ELSE IF o.routines[id] = Null /\ ~s.NDEBUG
        THEN {abort(s)}
        ELSE switch

\* --------------------------------------------------------------- channel
\* Channel::push that puts the value at the head of the list.
pushFront(s, obj) ==
    LET s1 == [s EXCEPT !.chan.list_ = <<obj>> \o @]
    IN  IF s1.chan.taker_ # 0 /\ s1.chan.taker_ # current(s1)
        THEN resume(s1, s1.chan.taker_)
        ELSE {s1}

push(s, obj) ==
    LET s1 == [s EXCEPT !.chan.list_ = Append(@, obj)]
    IN  IF s1.chan.taker_ # 0 /\ s1.chan.taker_ # current(s1)
        THEN resume(s1, s1.chan.taker_)
        ELSE {s1}

\* Channel::pop that binds the caller whatever taker_ is.
popAlwaysBinds(s) ==
    LET w == s.running
        s1 == IF w = Host \/ ~s.objs[w].inpop
              THEN [s EXCEPT !.chan.taker_ = current(s)]
              ELSE s
    IN  IF s1.chan.list_ = <<>>
        THEN yield(IF w = Host THEN s1 ELSE [s1 EXCEPT !.objs[w].inpop = TRUE])
        ELSE IF w = Host
        THEN {[s1 EXCEPT !.chan.list_ = Tail(@)]}
        ELSE {[s1 EXCEPT !.chan.list_ = Tail(@),
                         !.objs[w].inpop = FALSE,
                         !.objs[w].pc = @ + 1,
                         !.objs[w].acc = @ + Head(s1.chan.list_)]}

\* Channel::pop called by the running context: from the top when it is not
\* yet inside the loop, else from the return of yield().  A routine adds
\* the value popped to its accumulator; the host, which is always at the
\* top of the call, drops it.
pop(s) ==
    LET w == s.running
        s1 == IF (w = Host \/ ~s.objs[w].inpop) /\ s.chan.taker_ = 0
              THEN [s EXCEPT !.chan.taker_ = current(s)]
              ELSE s
    IN  IF s1.chan.list_ = <<>>
        THEN yield(IF w = Host THEN s1 ELSE [s1 EXCEPT !.objs[w].inpop = TRUE])
        ELSE IF w = Host
        THEN {[s1 EXCEPT !.chan.list_ = Tail(@)]}
        ELSE {[s1 EXCEPT !.chan.list_ = Tail(@),
                         !.objs[w].inpop = FALSE,
                         !.objs[w].pc = @ + 1,
                         !.objs[w].acc = @ + Head(s1.chan.list_)]}

consume(s, id) == {[s EXCEPT !.chan.taker_ = id]}

clear(s) == {[s EXCEPT !.chan.list_ = <<>>]}

\* Channel::touch with the test of taker_ left out.
touchUnconditional(s) == resume(s, s.chan.taker_)

touch(s) ==
    IF s.chan.taker_ # 0 /\ s.chan.taker_ # current(s)
    THEN resume(s, s.chan.taker_)
    ELSE {s}

size(s) == {Returned(s, "size", 0, Len(s.chan.list_))}

\* The bool that empty() returns is recorded as the integer it converts to.
empty(s) == {Returned(s, "empty", 0, IF s.chan.list_ = <<>> THEN 1 ELSE 0)}

\* ----------------------------------------------------------------- await
\* await(), its first statement: std::async starts func on a thread of its
\* own.
awaitLaunch(s) == {[s EXCEPT !.objs[s.running].fut = "running"]}

\* The loop of await() with the test of ordinator.current inverted.
awaitPollInverted(s) ==
    LET w == s.running
    IN  IF s.objs[w].fut = "ready"
        THEN {[s EXCEPT !.objs[w].got = s.objs[w].fval,
                        !.objs[w].fut = "none",
                        !.objs[w].pc = @ + 1]}
        ELSE IF current(s) = 0 THEN yield(s) ELSE {s}

\* await(), one future.wait_for(0) and what follows it: future.get() when
\* the status is ready, else yield() inside a routine and nothing in the
\* host, and the next wait_for.
awaitPoll(s) ==
    LET w == s.running
    IN  IF s.objs[w].fut = "ready"
        THEN {[s EXCEPT !.objs[w].got = s.objs[w].fval,
                        !.objs[w].fut = "none",
                        !.objs[w].pc = @ + 1]}
        ELSE IF current(s) # 0 THEN yield(s) ELSE {s}

\* ---------------------------------------------------------------- actions
Init ==
    /\ NDEBUG \in BOOLEAN
    /\ ordinator = Ordinator
    /\ objs = <<>>
    /\ running = Host
    /\ status = "ok"
    /\ call = [op |-> "none", arg |-> 0, ret |-> Pending]
    /\ chan = Channel
    /\ fiber = [NDEBUG |-> NDEBUG, ordinator |-> Ordinator, objs |-> <<>>,
                running |-> Host, status |-> "ok",
                call |-> [op |-> "none", arg |-> 0, ret |-> Pending],
                chan |-> Channel]
    /\ hist = [issued |-> <<>>, everDestroyed |-> FALSE,
               dead |-> {}, gone |-> {}, nres |-> <<>>, log |-> <<>>,
               pushed |-> <<>>, popped |-> <<>>,
               produced |-> <<>>, overlap |-> {}, spun |-> {}]

\* The host is between two calls of the library.
HostIdle == running = Host /\ status = "ok"

\* ghost: the routines other than the running one whose await has not
\* returned.
Outstanding == {u \in 1..Len(objs) : u # running /\ objs[u].fut # "none"}

\* A routine executes its body.
InBody == running # Host /\ status = "ok"

\* The call the running routine is about to make, "return" at the end.
NextOp ==
    LET r == objs[running]
    IN  IF r.pc > Len(r.func) THEN "return" ELSE r.func[r.pc].op

\* ghost: a resume that switched into a routine counts for that routine;
\* the count stops two above the length of the body, which no routine that
\* only yields reaches.
Resumed(n) ==
    IF n.status = "ok" /\ n.running # running /\ n.ordinator.current # 0
    THEN [hist.nres EXCEPT ![n.running] =
              IF @ < Len(objs[n.running].func) + 2 THEN @ + 1 ELSE @]
    ELSE hist.nres

HostCreate(f) ==
    /\ HostIdle
    /\ Len(objs) < MaxObj
    /\ \E n \in create(Cur, f) :
          /\ Set(n)
          /\ hist' = [hist EXCEPT
                 !.nres = Append(@, 0),
                 !.log = Append(@, <<>>),
                 !.produced = Append(@, 0),
                 !.issued = IF n.status = "ok"
                            THEN Append(@, [id |-> n.call.ret,
                                            grew |-> ordinator.indexes = <<>>])
                            ELSE @,
                 !.dead = IF n.status = "ok" THEN @ \ {n.call.ret} ELSE @]

HostResume(id) ==
    /\ HostIdle
    /\ \E n \in resume(Cur, id) :
          /\ Set(n)
          /\ hist' = [hist EXCEPT !.nres = Resumed(n)]

HostDestroy(id) ==
    /\ HostIdle
    /\ Len(ordinator.indexes) < MaxFree
    /\ \E n \in destroy(Cur, id) :
          /\ Set(n)
          /\ hist' = [hist EXCEPT
                 !.everDestroyed = TRUE,
                 !.dead = IF ordinator.routines[id] # Null THEN @ \cup {id} ELSE @,
                 !.gone = @ \cup ({ordinator.routines[id]} \ {Null})]

Yield ==
    /\ InBody
    /\ NextOp = "yield"
    /\ \E n \in yield([Cur EXCEPT !.objs[running].pc = @ + 1]) :
          /\ Set(n)
          /\ hist' = [hist EXCEPT !.log[running] = Append(@, objs[running].pc),
                                  !.overlap = @ \cup Outstanding]

Return ==
    /\ InBody
    /\ NextOp = "return"
    /\ \E n \in entry(Cur) :
          /\ Set(n)
          /\ hist' = [hist EXCEPT !.overlap = @ \cup Outstanding]

AwaitLaunch ==
    /\ InBody
    /\ NextOp = "await"
    /\ objs[running].fut = "none"
    /\ \E n \in awaitLaunch(Cur) :
          /\ Set(n)
          /\ UNCHANGED hist

AwaitPoll ==
    /\ InBody
    /\ NextOp = "await"
    /\ objs[running].fut # "none"
    /\ \E n \in awaitPoll(Cur) :
          /\ Set(n)
          /\ hist' = [hist EXCEPT
                 !.log[running] = IF objs[running].fut = "ready"
                                  THEN Append(@, objs[running].pc) ELSE @,
                 !.spun = IF objs[running].fut = "running" /\ n.running = running
                          THEN @ \cup {running} ELSE @]

\* The thread std::async started for routine u completes: func has returned
\* v and the future is ready.  It touches nothing else.
WorkerDone(u, v) ==
    /\ status = "ok"
    /\ u \in 1..Len(objs)
    /\ objs[u].fut = "running"
    /\ objs' = [objs EXCEPT ![u].fut = "ready", ![u].fval = v]
    /\ hist' = [hist EXCEPT !.produced[u] = v]
    /\ UNCHANGED <<NDEBUG, ordinator, running, status, call, chan, fiber>>

HostPush(v) ==
    /\ HostIdle
    /\ Len(hist.pushed) < MaxPush
    /\ \E n \in push(Cur, v) :
          /\ Set(n)
          /\ hist' = [hist EXCEPT !.pushed = Append(@, v), !.nres = Resumed(n)]

Push ==
    /\ InBody
    /\ NextOp = "push"
    /\ LET v == objs[running].func[objs[running].pc].v
       IN  \E n \in push([Cur EXCEPT !.objs[running].pc = @ + 1], v) :
              /\ Set(n)
              /\ hist' = [hist EXCEPT
                     !.pushed = Append(@, v),
                     !.nres = Resumed(n),
                     !.log[running] = Append(@, objs[running].pc)]

Pop ==
    /\ InBody
    /\ NextOp = "pop"
    /\ \E n \in pop(Cur) :
          /\ Set(n)
          /\ hist' = IF chan.list_ # <<>>
                     THEN [hist EXCEPT
                              !.popped = Append(@, Head(chan.list_)),
                              !.log[running] = Append(@, objs[running].pc)]
                     ELSE hist

\* destroy() called by the running routine, on itself or on another one.
Destroy ==
    /\ InBody
    /\ NextOp = "destroy"
    /\ LET v == objs[running].func[objs[running].pc].v
           id == IF v = 0 THEN ordinator.current ELSE v
       IN  /\ id \in 1..Len(ordinator.routines)
           /\ \E n \in destroy([Cur EXCEPT !.objs[running].pc = @ + 1], id) :
                 /\ Set(n)
                 /\ hist' = [hist EXCEPT
                        !.everDestroyed = TRUE,
                        !.dead = IF ordinator.routines[id] # Null
                                 THEN @ \cup {id} ELSE @,
                        !.gone = @ \cup ({ordinator.routines[id]} \ {Null}),
                        !.log[running] = Append(@, objs[running].pc)]

\* The host replaces the channel by one constructed with Channel(id).
HostConstruct(id) ==
    /\ HostIdle
    /\ Set([Cur EXCEPT !.chan = ChannelOf(id)])
    /\ UNCHANGED hist

HostConsume(id) ==
    /\ HostIdle
    /\ \E n \in consume(Cur, id) : Set(n)
    /\ UNCHANGED hist

HostClear ==
    /\ HostIdle
    /\ \E n \in clear(Cur) : Set(n)
    /\ UNCHANGED hist

HostSize ==
    /\ HostIdle
    /\ \E n \in size(Cur) : Set(n)
    /\ UNCHANGED hist

HostEmpty ==
    /\ HostIdle
    /\ \E n \in empty(Cur) : Set(n)
    /\ UNCHANGED hist

HostTouch ==
    /\ HostIdle
    /\ \E n \in touch(Cur) :
          /\ Set(n)
          /\ hist' = [hist EXCEPT !.nres = Resumed(n)]

Touch ==
    /\ InBody
    /\ NextOp = "touch"
    /\ \E n \in touch([Cur EXCEPT !.objs[running].pc = @ + 1]) :
          /\ Set(n)
          /\ hist' = [hist EXCEPT !.nres = Resumed(n),
                                  !.log[running] = Append(@, objs[running].pc)]

\* pop() called by the host.
HostPop ==
    /\ HostIdle
    /\ \E n \in pop(Cur) :
          /\ Set(n)
          /\ hist' = IF chan.list_ # <<>>
                     THEN [hist EXCEPT !.popped = Append(@, Head(chan.list_))]
                     ELSE hist

\* The identifiers of the table, and those whose slot holds a routine.
Ids == 1..Len(ordinator.routines)

Live == {id \in Ids : ordinator.routines[id] # Null}

\* The scheduler used as its contract asks: the host creates routines that
\* yield, resumes any slot of the table and destroys live slots.
Next ==
    \/ \E f \in YieldBodies : HostCreate(f)
    \/ \E id \in Ids : HostResume(id)
    \/ \E id \in Live : HostDestroy(id)
    \/ Yield
    \/ Return

Spec == Init /\ [][Next]_vars

\* The scheduler called with any identifier: resume of identifiers the table
\* does not have, destroy of slots that are empty.
NextAny ==
    \/ \E f \in YieldBodies : HostCreate(f)
    \/ \E id \in 0..(Len(ordinator.routines) + 1) : HostResume(id)
    \/ \E id \in Ids : HostDestroy(id)
    \/ Yield
    \/ Return

SpecAny == Init /\ [][NextAny]_vars

\* The scheduler with destroy called on any slot of the table, empty ones
\* included, and routines that yield once.
NextDestroy ==
    \/ HostCreate(YieldBody(1))

    \/ \E id \in Ids : HostResume(id)
    \/ \E id \in Ids : HostDestroy(id)
    \/ Yield
    \/ Return

SpecDestroy == Init /\ [][NextDestroy]_vars

\* destroy called from inside a body: the host creates routines that
\* destroy themselves or the routine of slot 1 and then yield, and routines
\* that only yield, and resumes them.
NextInner ==
    \/ \E f \in {Destroyer(0), Destroyer(1), YieldBody(1)} : HostCreate(f)
    \/ \E id \in Ids : HostResume(id)
    \/ Destroy
    \/ Yield
    \/ Return

SpecInner == Init /\ [][NextInner]_vars

\* The end-to-end scenario: the host creates routine A, which pushes 1, 2, 3,
\* and routine B, which pops three times and adds up, in either order, and
\* then keeps resuming them, in any order.
Created(f) == \E u \in 1..Len(objs) : objs[u].func = f

CreateA == ~Created(Producer) /\ HostCreate(Producer)

CreateB == ~Created(Consumer) /\ HostCreate(Consumer)

ResumeAB(id) == Created(Producer) /\ Created(Consumer) /\ HostResume(id)

NextPC ==
    \/ CreateA
    \/ CreateB
    \/ \E id \in Ids : ResumeAB(id)
    \/ Push
    \/ Pop
    \/ Return

SpecPC == Init /\ [][NextPC]_vars

\* The values the awaited function may produce.
AwaitVals == {41, 42}

\* await: the host creates routines that await a function and routines that
\* yield once, and resumes them; the threads of std::async complete on their
\* own.
NextAwait ==
    \/ \E f \in {Awaiter, YieldBody(1)} : HostCreate(f)
    \/ \E id \in Ids : HostResume(id)
    \/ AwaitLaunch
    \/ AwaitPoll
    \/ \E u \in 1..MaxObj, v \in AwaitVals : WorkerDone(u, v)
    \/ Yield
    \/ Return

\* A thread that was started runs to its end, and a routine that was
\* switched to executes.
SpecAwait ==
    /\ Init /\ [][NextAwait]_vars
    /\ WF_vars(\E u \in 1..MaxObj, v \in AwaitVals : WorkerDone(u, v))
    /\ WF_vars(AwaitLaunch)
    /\ WF_vars(AwaitPoll)

\* The values the host pushes.
HostVals == {7, 8}

\* One channel: the host creates producers and consumers, resumes them and
\* pushes values itself.
NextChan ==
    \/ \E f \in {Producer, Consumer} : HostCreate(f)
    \/ \E id \in Ids : HostResume(id)
    \/ \E v \in HostVals : HostPush(v)
    \/ Push
    \/ Pop
    \/ Return

SpecChan == Init /\ [][NextChan]_vars

\* The channel used by the host on both ends, with consumers beside it.
NextHostPop ==
    \/ HostCreate(Consumer)
    \/ \E id \in Ids : HostResume(id)
    \/ \E v \in HostVals : HostPush(v)
    \/ HostPop
    \/ Pop
    \/ Return

SpecHostPop == Init /\ [][NextHostPop]_vars

\* The operations of the channel: the host creates consumers, which pop,
\* resumes them, and calls the other operations itself.
NextBind ==
    \/ HostCreate(Popper)

    \/ \E id \in Ids : HostResume(id)
    \/ \E id \in Ids : HostConstruct(id)
    \/ \E id \in Ids : HostConsume(id)
    \/ HostPush(7)
    \/ HostClear
    \/ HostSize
    \/ HostEmpty
    \/ HostTouch
    \/ Pop
    \/ Return

SpecBind == Init /\ [][NextBind]_vars

\* push and touch, called by the host and by routines, with consumers to
\* resume.
NextTouch ==
    \/ \E f \in {Consumer, Toucher, SelfTaker} : HostCreate(f)
    \/ \E id \in Ids : HostResume(id)
    \/ HostPush(7)
    \/ HostTouch
    \/ Push
    \/ Pop
    \/ Touch
    \/ Return

SpecTouch == Init /\ [][NextTouch]_vars

\* The two backends side by side: one program, built once with each
\* backend, makes the same calls in both builds for as long as both are at
\* the same place of it.
BothIdle == HostIdle /\ fiber.running = Host /\ fiber.status = "ok"

BothInBody ==
    /\ InBody /\ fiber.running = running /\ fiber.status = "ok"
    /\ fiber.objs[running].pc = objs[running].pc

BothIds == {id \in Ids : id <= Len(fiber.ordinator.routines)}

BothLive == {id \in Live \cap BothIds : fiber.ordinator.routines[id] # Null}

BothCreate(f) ==
    /\ BothIdle
    /\ Len(objs) < MaxObj
    /\ \E n \in create(Cur, f), m \in fiber_create(fiber, f) : Step(n, m)
    /\ UNCHANGED hist

BothResume(id) ==
    /\ BothIdle
    /\ \E n \in resume(Cur, id), m \in fiber_resume(fiber, id) : Step(n, m)
    /\ UNCHANGED hist

BothDestroy(id) ==
    /\ BothIdle
    /\ Len(ordinator.indexes) < MaxFree
    /\ \E n \in destroy(Cur, id), m \in fiber_destroy(fiber, id) : Step(n, m)
    /\ UNCHANGED hist

BothYield ==
    /\ BothInBody
    /\ NextOp = "yield"
    /\ \E n \in yield([Cur EXCEPT !.objs[running].pc = @ + 1]),
          m \in fiber_yield([fiber EXCEPT !.objs[running].pc = @ + 1]) :
             Step(n, m)
    /\ UNCHANGED hist

BothReturn ==
    /\ BothInBody
    /\ NextOp = "return"
    /\ \E n \in entry(Cur), m \in fiber_entry(fiber) : Step(n, m)
    /\ UNCHANGED hist

NextBoth ==
    \/ \E f \in YieldBodies : BothCreate(f)
    \/ \E id \in BothIds : BothResume(id)
    \/ \E id \in BothLive : BothDestroy(id)
    \/ BothYield
    \/ BothReturn

SpecBoth == Init /\ [][NextBoth]_vars

\* ------------------------------------------------------------ properties
Objs == 1..Len(objs)

\* The positions of a body that have been executed are 1..n, each once.
Executed(u, n) == hist.log[u] = [i \in 1..n |-> i]

\* C1: a routine whose body yields k times and returns, resumed by the host
\* alone, is suspended at its i-th yield after the i-th resume (i <= k),
\* each time with the host back in control and current = 0; the (k+1)-th
\* resume runs the rest and sets finished; no later resume enters it; no
\* position of the body is executed twice or skipped.
C1_YieldThenReturn ==
    /\ HostIdle => ordinator.current = 0
    /\ \A u \in Objs :
          LET k == Len(objs[u].func)
              n == hist.nres[u]
              r == objs[u]
          IN  /\ n <= k + 1
              /\ (status = "ok" /\ running = u) =>
                    /\ n >= 1 /\ ~r.finished /\ r.pc = n /\ Executed(u, n - 1)
                    /\ ordinator.current = r.id
              /\ (status = "ok" /\ running # u /\ n <= k) =>
                    ~r.finished /\ r.pc = n + 1 /\ Executed(u, n)
              /\ (status = "ok" /\ running # u /\ n = k + 1) =>
                    r.finished /\ Executed(u, k)
    /\ (HostIdle /\ call.op = "resume") =>
          LET u == ordinator.routines[call.arg]
          IN  /\ call.ret \in {Switched, NotFound, Finished}
              /\ call.ret = NotFound <=> u = Null
              /\ call.ret = Switched => hist.nres[u] >= 1
              /\ call.ret = Finished =>
                    objs[u].finished /\ hist.nres[u] = Len(objs[u].func) + 1

\* C1 witness: the host is back from the third resume of a routine with
\* one yield, which returned "already finished".
C1_Witness ==
    /\ HostIdle /\ call.op = "resume" /\ call.ret = Finished
    /\ \E u \in Objs :
          /\ ordinator.routines[call.arg] = u
          /\ Len(objs[u].func) = 1 /\ hist.nres[u] = 2 /\ objs[u].finished

IssuedIds == [i \in 1..Len(hist.issued) |-> hist.issued[i].id]

\* C2: while destroy has never been called, create never returns an
\* identifier it returned before, and an identifier returned with the
\* free-list empty is greater than all those returned before.
C2_Claim ==
    ~hist.everDestroyed =>
        \A i, j \in 1..Len(hist.issued) :
            i < j => /\ IssuedIds[i] # IssuedIds[j]
                     /\ hist.issued[j].grew => IssuedIds[i] < IssuedIds[j]

\* C3: after destroy(id) of a live slot, and until create returns id again,
\* resume(id) from the host returns "not found" and switches nowhere; a
\* resume that does switch enters the routine its slot holds now, never a
\* destroyed one, and enters it at the start of its body if that routine
\* has not run before.
C3_DestroyedNotFound ==
    [][\A id \in Ids : HostResume(id) =>
          /\ id \in hist.dead =>
                /\ call' = [op |-> "resume", arg |-> id, ret |-> NotFound]
                /\ status' = "ok" /\ running' = Host
                /\ UNCHANGED <<ordinator, objs>>
          /\ running' # Host =>
                /\ running' = ordinator.routines[id]
                /\ running' \notin hist.gone
                /\ ~objs[running'].stack => objs'[running'].pc = 1
                /\ objs[running'].stack => objs'[running'].pc = objs[running'].pc]_vars

\* C3 witness: resume(id) has just returned "not found" for the identifier
\* of a routine that was destroyed while suspended at a yield.
C3_Witness ==
    /\ HostIdle /\ call = [op |-> "resume", arg |-> call.arg, ret |-> NotFound]
    /\ call.arg \in hist.dead
    /\ \E u \in hist.gone : objs[u].id = call.arg /\ objs[u].stack /\ ~objs[u].finished

\* C4: resume(id) of a routine whose finished flag is set returns "already
\* finished" and changes nothing: no switch, current stays 0, the table, the
\* free-list and every Routine are as before.
C4_FinishedNoTransfer ==
    [][\A id \in Ids :
          (/\ HostResume(id)
           /\ ordinator.routines[id] # Null
           /\ objs[ordinator.routines[id]].finished) =>
              /\ call' = [op |-> "resume", arg |-> id, ret |-> Finished]
              /\ status' = "ok" /\ running' = Host /\ ordinator'.current = 0
              /\ UNCHANGED <<ordinator, objs>>]_vars

\* C4 witness: the host is back from a resume that returned "already
\* finished".
C4_Witness ==
    /\ HostIdle /\ call.op = "resume" /\ call.ret = Finished
    /\ ordinator.current = 0
    /\ objs[ordinator.routines[call.arg]].finished

\* C5: resume(id) from the host, for an identifier that denotes no live
\* routine (an empty slot, or an identifier the table does not have), returns
\* a failure indicator and leaves the scheduler as it was; it never aborts.
C5_Claim ==
    [][\A id \in 0..(Len(ordinator.routines) + 1) :
          (HostResume(id) /\ id \notin Live) =>
              /\ status' = "ok"
              /\ call'.op = "resume" /\ call'.arg = id
              /\ call'.ret \in {NotFound, Finished}
              /\ running' = Host
              /\ UNCHANGED <<ordinator, objs>>]_vars

\* C6: without clear(), the values popped so far followed by the values
\* still queued are the values pushed so far, in the order of the pushes:
\* pop returns v1, ..., vn in that order, none lost, repeated or reordered,
\* however often the consumer was suspended inside pop.
C6_Fifo == hist.pushed = hist.popped \o chan.list_

\* C6 witness: three values pushed by the host and by a producer have been
\* popped by a consumer that was suspended inside pop and resumed again.
C6_Witness ==
    /\ Len(hist.popped) >= 3
    /\ \E i, j \in 1..Len(hist.popped) :
          hist.popped[i] \in HostVals /\ hist.popped[j] \notin HostVals
    /\ \E u \in Objs : objs[u].func = Consumer /\ hist.nres[u] >= 3

\* The consumer bound to the channel is suspended inside pop() on the empty
\* channel and another routine, running with current() its own identifier,
\* is about to call push.
WakeCase ==
    /\ InBody /\ NextOp = "push"
    /\ ordinator.current = objs[running].id
    /\ chan.list_ = <<>>
    /\ chan.taker_ \in Live /\ chan.taker_ # ordinator.current
    /\ LET c == objs[ordinator.routines[chan.taker_]]
       IN  c.inpop /\ c.ctx = ordinator.routines[chan.taker_]

\* C7: in that case push(v) resumes the consumer: the next thing to run is
\* the consumer, inside its pop() with v queued, and the program goes on.
C7_Claim ==
    [][(WakeCase /\ Push) =>
          /\ status' = "ok"
          /\ running' = ordinator.routines[chan.taker_]
          /\ Len(chan'.list_) = 1]_vars

\* C8: in the end-to-end scenario no assertion fails and nothing undefined
\* happens, and when A and B have both finished the accumulator of B is 6.
C8_Claim ==
    /\ status = "ok"
    /\ (\A u \in Objs : objs[u].finished) /\ Len(objs) = 2 =>
          \E u \in Objs : objs[u].func = Consumer /\ objs[u].acc = 6

\* The host resumes routine u.
ResumeOf(u) == running = Host /\ running' = u

Awaiting(u) == u \in 1..Len(objs) /\ objs[u].fut # "none"

AwaitReturned(u) == u \in 1..Len(objs) /\ objs[u].func = Awaiter /\ objs[u].pc > 1

\* C9: await called in a routine returns only when the function has
\* completed on its thread, with exactly the value it produced; a poll that
\* finds it incomplete is followed by yield (control is in the host, current
\* is 0, await has not returned); and if the thread is scheduled fairly and
\* the host resumes the caller again and again, await returns.
C9_Await ==
    /\ [](\A u \in 1..Len(objs) :
             /\ AwaitReturned(u) =>
                   hist.produced[u] \in AwaitVals /\ objs[u].got = hist.produced[u]
             /\ u \notin hist.spun)
    /\ [][(AwaitPoll /\ objs[running].fut = "running") =>
             /\ running' = Host /\ ordinator'.current = 0 /\ status' = "ok"
             /\ objs'[running].pc = objs[running].pc
             /\ objs'[running].fut = "running"]_vars
    /\ \A u \in 1..MaxObj :
          []<><<ResumeOf(u)>>_vars => (Awaiting(u) ~> AwaitReturned(u))

\* C9 witness: an await has returned the value its function produced, and
\* while it was outstanding another routine ran.
C9_Witness ==
    \E u \in 1..Len(objs) :
        /\ AwaitReturned(u) /\ u \in hist.overlap
        /\ objs[u].got = hist.produced[u] /\ objs[u].got \in AwaitVals

\* C10: create never fails: it returns an identifier whose slot was empty
\* or is new, and the slot then holds the new, unfinished routine; the
\* assertion on the slot of the free-list head holds.
C10_Claim ==
    [][\A f \in YieldBodies : HostCreate(f) =>
          /\ status' = "ok"
          /\ LET id == call'.ret
             IN  /\ call'.op = "create"
                 /\ id = Len(ordinator.routines) + 1
                       \/ (id \in Ids /\ ordinator.routines[id] = Null)
                 /\ ordinator'.routines[id] = Len(objs')
                 /\ ~objs'[Len(objs')].finished]_vars

\* C11: the two backends, run side by side on the same calls, are in step
\* after every call: the same context executes at the same position of its
\* body, the programs have failed alike, the last call returned the same
\* (the identifier from create, the code from resume), and the tables, the
\* free-lists, current and the finished flags are equal.
C11_Claim ==
    /\ fiber.status = status
    /\ fiber.running = running
    /\ fiber.call = call
    /\ fiber.ordinator.routines = ordinator.routines
    /\ fiber.ordinator.indexes = ordinator.indexes
    /\ fiber.ordinator.current = ordinator.current
    /\ \A u \in Objs : /\ fiber.objs[u].pc = objs[u].pc
                       /\ fiber.objs[u].finished = objs[u].finished

\* C12: pop() called by the host on an empty channel never returns and
\* never aborts: it spins, and its calls of yield() leave current at 0 and
\* the table, the free-list and the routines as they were.
C12_Claim ==
    [][(HostPop /\ chan.list_ = <<>>) =>
          /\ status' = "hang"
          /\ running' = Host
          /\ UNCHANGED <<ordinator, objs>>]_vars

\* C13: while the program runs, current() is the identifier of the context
\* that executes: 0 when it is the host, and when it is a routine the
\* identifier that routine was resumed under.
C13_Claim ==
    status = "ok" =>
        /\ running = Host => ordinator.current = 0
        /\ running # Host => ordinator.current = objs[running].id

\* C14: the finished flag of a routine goes from false to true in one step
\* only, the return of its body, which always sets it; it never goes back
\* to false; and once it is true the routine never executes again: no
\* resume switches to it and its position in the body stays where it was.
C14_FinishedOnce ==
    [][\A u \in Objs :
          /\ objs[u].finished =>
                /\ objs'[u].finished
                /\ running' # u
                /\ objs'[u].pc = objs[u].pc
                /\ hist'.log[u] = hist.log[u]
          /\ (~objs[u].finished /\ objs'[u].finished) =>
                running = u /\ objs[u].pc > Len(objs[u].func)
          /\ (Return /\ running = u) => objs'[u].finished]_vars

\* C14 witness: a routine with two yields has run to its end, its flag is
\* set, and a resume after that returned "already finished".
C14_Witness ==
    /\ HostIdle /\ call.op = "resume" /\ call.ret = Finished
    /\ \E u \in Objs :
          /\ ordinator.routines[call.arg] = u
          /\ objs[u].finished /\ Len(objs[u].func) = 2 /\ Executed(u, 2)

\* What destroy(id) does to a live slot: the slot becomes empty, id is the
\* new last element of the free-list, and the other slots, current, the
\* saved host context and every Routine object are as before.
DestroyedLive(id) ==
    /\ status' = "ok" /\ running' = running
    /\ ordinator'.routines = [ordinator.routines EXCEPT ![id] = Null]
    /\ ordinator'.indexes = Append(ordinator.indexes, id)
    /\ ordinator'.current = ordinator.current
    /\ ordinator'.ctx = ordinator.ctx
    /\ objs' = objs

PopFromTop == HostPop \/ (Pop /\ ~objs[running].inpop)

\* C16: the taker is 0 when the channel is constructed without an id; a
\* step changes it only if it is consume(id) or the construction with an
\* id, which set it to id, or a pop() that finds it 0 and sets it to
\* current(); pop() that finds it 0 always does so; push, touch, clear,
\* size and empty leave it as it is.
C16_TakerBinding ==
    /\ chan.taker_ = 0
    /\ [][/\ chan'.taker_ # chan.taker_ =>
                /\ \/ \E id \in Ids : HostConsume(id) /\ chan'.taker_ = id
                   \/ \E id \in Ids : HostConstruct(id) /\ chan'.taker_ = id
                   \/ /\ chan.taker_ = 0 /\ chan'.taker_ = ordinator.current
                      /\ PopFromTop
                /\ ~(HostPush(7) \/ HostTouch \/ HostClear \/ HostSize \/ HostEmpty)
          /\ (chan.taker_ = 0 /\ chan'.taker_ # ordinator.current) => ~PopFromTop]_vars


\* C16 witness: two consumers are suspended inside pop(), the taker is the
\* one that called pop() first, and the host has since called push, clear
\* and, last, empty().
C16_Witness ==
    /\ HostIdle /\ call.op = "empty" /\ call.ret = 1
    /\ hist.pushed # <<>> /\ hist.popped = <<>>
    /\ chan.taker_ \in Live
    /\ \E u, w \in Objs :
          /\ u # w /\ ordinator.routines[chan.taker_] = u
          /\ objs[u].inpop /\ objs[w].inpop
          /\ objs[w].id # chan.taker_

\* The program as a call begins: a routine's position is already past it.
Caller == IF running = Host THEN Cur ELSE [Cur EXCEPT !.objs[running].pc = @ + 1]

\* The value the running context is about to push.
PushedVal == IF running = Host THEN 7 ELSE objs[running].func[objs[running].pc].v

\* The program is in state n after the step.
SameAs(n) ==
    /\ ordinator' = n.ordinator /\ objs' = n.objs /\ running' = n.running
    /\ status' = n.status /\ call' = n.call /\ chan' = n.chan

\* A consumer is bound and it is not the calling context.
BoundOther == chan.taker_ # 0 /\ chan.taker_ # ordinator.current

C18_Claim ==
    [][((HostPush(7) \/ Push \/ HostTouch \/ Touch) /\ BoundOther) =>
          ordinator.current = 0 /\ status' # "abort"]_vars

\* C19: the free-list and the table agree: every identifier of the
\* free-list is an identifier of the table, its slot is empty and it is in
\* the free-list once; and the identifier of every empty slot is in the
\* free-list.
C19_Claim ==
    LET ix == ordinator.indexes
    IN  /\ \A i \in 1..Len(ix) :
              /\ ix[i] \in Ids
              /\ ordinator.routines[ix[i]] = Null
              /\ \A j \in 1..Len(ix) : i # j => ix[i] # ix[j]
        /\ \A id \in Ids :
              ordinator.routines[id] = Null => \E i \in 1..Len(ix) : ix[i] = id

\* C20: whenever current() is not 0 its slot of the table holds a routine
\* that has not finished, also after destroy was called inside a body, on
\* the caller or on another routine; so the assertion routine != nullptr
\* of yield never fails.
C20_Claim ==
    /\ [](status = "ok" /\ ordinator.current # 0 =>
             /\ ordinator.current \in Ids
             /\ ordinator.routines[ordinator.current] # Null
             /\ ~objs[ordinator.routines[ordinator.current]].finished)
    /\ [][Yield => status' # "abort"]_vars

====






